---- MODULE Spec2Model ----
(***************************************************************************)
(* dingo/gw/inference/data_preparation.py as a state machine.              *)
(*                                                                         *)
(* Callers invoke load_raw_data, parse_settings_for_raw_data,              *)
(* data_to_domain, get_domain_data and get_corrected_sky_position.  The    *)
(* only shared state is the on-disk event dataset (the cache file).        *)
(* load_raw_data and get_domain_data are modelled statement by statement   *)
(* (lookup, download, save, build, convert); the other three are pure and  *)
(* are one step each.                                                      *)
(*                                                                         *)
(* Optional values (Python None) are sequences of length 0 or 1.           *)
(***************************************************************************)
EXTENDS Integers, Sequences, FiniteSets, TLC

VARIABLES cache, proc, ncalls

vars == <<cache, proc, ncalls>>

(* ------------------------------ bounds --------------------------------- *)

\* calls made in one run
MaxCalls == 2
\* number of frequency bins of a downloaded PSD
PsdLen == 2
\* fixed point: 1.0 is Scale units of ASD and Scale*Scale units of PSD
Scale == 2
\* significand bits of the floating-point format
MantBits == 3
\* GPS times handed to the sky-position correction are 0..MaxTime
MaxTime == 2

(* ---------------------------- input domains ---------------------------- *)

Procs == {1, 2}

Files == {"events.hdf5"}

NoFile == "None"

Events == {1126259462, 1187008882}

Dets == {"H1", "L1"}

DomainTypes == {"FrequencyDomain", "TimeDomain"}

Windows == {[type |-> "tukey", T |-> 4, f_s |-> 4096],
            [type |-> "tukey", T |-> 8, f_s |-> 4096]}

TimePsds == {1024}

TimeBuffers == {2}

\* model_metadata: dataset_settings.domain.type and train_settings.data
ModelMetadata ==
    [domain_type : DomainTypes, window : Windows, detectors : {Dets}]

(* --------------------------- the cache file ---------------------------- *)

\* DingoDataset(dictionary={event: data, "settings": settings},
\*              data_keys=[event])
DingoDataset(event, data, settings) ==
    [key |-> event, data |-> data, settings |-> settings]

\* dataset.to_file(file, mode): "a" appends to what the file holds
to_file(contents, dataset, mode) ==
    IF mode = "a" THEN Append(contents, dataset) ELSE <<dataset>>

\* load_data_from_file(file, key, settings): the payloads stored under key
\* with settings equal to the requested ones; empty is Python's None
load_data_from_file(contents, key, settings) ==
    {contents[i].data : i \in {j \in 1..Len(contents) :
                                  /\ contents[j].key = key
                                  /\ contents[j].settings = settings}}

\* str(time_event)
Str(time_event) == ToString(time_event)

(* ------------------- parse_settings_for_raw_data ----------------------- *)

Returned(v) == [raised |-> "none", value |-> <<v>>]

Raised(e) == [raised |-> e, value |-> <<>>]

\* the parser without its check of the domain type
parse_settings_unchecked(model_metadata, time_psd, time_buffer) ==
    Returned([window       |-> model_metadata.window,
              detectors    |-> model_metadata.detectors,
              time_segment |-> model_metadata.window.T,
              time_psd     |-> time_psd,
              time_buffer  |-> time_buffer,
              f_s          |-> model_metadata.window.f_s])

parse_settings_for_raw_data(model_metadata, time_psd, time_buffer) ==
    IF model_metadata.domain_type = "FrequencyDomain"
    THEN Returned([window       |-> model_metadata.window,
                   detectors    |-> model_metadata.detectors,
                   time_segment |-> model_metadata.window.T,
                   time_psd     |-> time_psd,
                   time_buffer  |-> time_buffer,
                   f_s          |-> model_metadata.window.f_s])
    ELSE Raised("NotImplementedError")

\* the settings structures a caller of load_raw_data passes
SettingsSet ==
    {parse_settings_for_raw_data(m, tp, tb).value[1] :
        <<m, tp, tb>> \in {x \in ModelMetadata \X TimePsds \X TimeBuffers :
                              x[1].domain_type = "FrequencyDomain"}}

(* --------------------------- data_to_domain ---------------------------- *)

\* low_value=1.0 of the ASD conversion
LowValue == 1

Fixed(x) == x * Scale

Max(a, b) == IF a >= b THEN a ELSE b

Min(a, b) == IF a <= b THEN a ELSE b

\* ASD values around the floor: 0, just below, at, and just above 1.0
AsdVals == {0, Fixed(LowValue) - 1, Fixed(LowValue), Fixed(LowValue) + 1}

PsdVals == {a * a : a \in AsdVals}

\* psd ** 0.5, elementwise
Sqrt(v) == CHOOSE a \in AsdVals : a * a = v

SqrtArray(psd) == [i \in 1..Len(psd) |-> Sqrt(psd[i])]

\* domain.update_data(data, low_value): the domain's bin count, by
\* truncation or padding, with values below low_value raised to low_value
update_data(domain, data, low_value) ==
    [i \in 1..domain.nbins |->
        IF i <= Len(data) THEN Max(data[i], low_value) ELSE low_value]

\* TimeSeries(strain, dt=1/f_s).to_pycbc() * window, to_frequencyseries(),
\* cyclic_time_shift(time_buffer), domain.update_data(...): kept as the term
\* of the operations applied
StrainToDomain(event_strain, settings_raw_data, domain, window) ==
    [op |-> "update_data", nbins |-> domain.nbins,
     of |-> [op |-> "cyclic_time_shift",
             dt |-> settings_raw_data.time_buffer,
             of |-> [op |-> "to_frequencyseries", window |-> window,
                     of |-> [op |-> "TimeSeries",
                             f_s |-> settings_raw_data.f_s,
                             of |-> event_strain]]]]

\* the ASD reformatted like the strain, without low_value
PsdToAsdNoFloor(psd, domain) == update_data(domain, SqrtArray(psd), 0)

PsdToAsd(psd, domain) == update_data(domain, SqrtArray(psd), Fixed(LowValue))

data_to_domain(raw_data, settings_raw_data, domain, window) ==
    IF domain.kind = "FrequencyDomain"
    THEN Returned(
           [waveform |-> [det \in DOMAIN raw_data.strain |->
                            StrainToDomain(raw_data.strain[det],
                                           settings_raw_data, domain, window)],
            asds     |-> [det \in DOMAIN raw_data.psd |->
                            PsdToAsd(raw_data.psd[det], domain)]])
    ELSE Raised("NotImplementedError")

\* build_domain_from_model_metadata: an opaque constructor; what it gives
\* for a metadata is a domain object of some kind, or a failure of its own
build_domain_from_model_metadata(model_metadata) ==
    {Returned([kind |-> k, nbins |-> PsdLen]) : k \in DomainTypes}
        \cup {Raised("DomainFactoryError")}

\* domain objects handed to data_to_domain by a direct caller
DomainObjects == [kind : DomainTypes, nbins : 1..(PsdLen + 1)]

PsdArrays == [1..PsdLen -> PsdVals]

StrainOf(det) == <<det, "strain">>

\* raw event data: strain and psd per detector
RawDataSet ==
    [strain : {[det \in Dets |-> StrainOf(det)]}, psd : [Dets -> PsdArrays]]

ConstPsd(v) == [det \in Dets |-> [i \in 1..PsdLen |-> v]]

\* what download_raw_data can return for an event
DownloadPayloads ==
    {[strain |-> [det \in Dets |-> StrainOf(det)], psd |-> ConstPsd(v)] :
        v \in {0, Fixed(LowValue) * Fixed(LowValue)}}

(* -------------------- get_corrected_sky_position ----------------------- *)

RECURSIVE Pow2(_)
Pow2(k) == IF k = 0 THEN 1 ELSE 2 * Pow2(k - 1)

RECURSIVE Bits(_)
Bits(n) == IF n = 0 THEN 0 ELSE 1 + Bits(n \div 2)

\* round a non-negative exact value to MantBits significant bits,
\* ties to even
RoundNat(n) ==
    IF n < Pow2(MantBits) THEN n
    ELSE LET q   == Pow2(Bits(n) - MantBits)
             lo  == (n \div q) * q
             rem == n - lo
         IN  IF 2 * rem < q THEN lo
             ELSE IF 2 * rem > q THEN lo + q
             ELSE IF (lo \div q) % 2 = 0 THEN lo ELSE lo + q

Round(x) == IF x < 0 THEN -RoundNat(-x) ELSE RoundNat(x)

IsFloat(x) == Round(x) = x

\* float addition and subtraction
FAdd(a, b) == Round(a + b)

FSub(a, b) == Round(a - b)

\* 2 * np.pi as a float
TwoPi == 3 * Pow2(MantBits)

\* C fmod: exact, with the sign of the dividend
Fmod(x, w) == IF x < 0 THEN -((-x) % w) ELSE x % w

\* the float % of Python and numpy, for a positive divisor
FloatMod(x, w) ==
    LET mod == Fmod(x, w)
    IN  IF mod # 0 /\ mod < 0 THEN FAdd(mod, w) ELSE mod

Times == 0..MaxTime

\* Time(t, format='gps', scale='utc').sidereal_time('apparent', 'greenwich')
\* in radians: a float in [0, 2 pi), advancing with t
sidereal_time(t) == (t * 20) % TwoPi

get_corrected_sky_position(ra, t_event, t_ref) ==
    LET longitude_event     == sidereal_time(t_event)
        longitude_reference == sidereal_time(t_ref)
        delta_longitude     == FSub(longitude_event, longitude_reference)
        ra_correction       == delta_longitude
    IN  FloatMod(FAdd(ra, ra_correction), TwoPi)

RaVals == {x \in (0 - 2 * TwoPi)..(2 * TwoPi) : IsFloat(x)}

(* ------------------------------- state --------------------------------- *)
(* proc[p] is the frame of caller p: pc is its position, top the function  *)
(* it called, the middle fields are arguments and locals, result and error *)
(* what the call gave back.  History fields: trace lists the collaborators *)
(* invoked by the current call, in order; ndl counts download_raw_data     *)
(* calls of the current load_raw_data invocation, found is what its lookup *)
(* gave and dl what its download gave; cache0 is the cache when the        *)
(* current call began; last is the most recent finished load_raw_data      *)
(* invocation of this caller and prev the one before the current.          *)

NoDomain == [kind |-> "none", nbins |-> 0]

Idle ==
    [pc |-> "idle", top |-> "none", time_event |-> 0, settings |-> <<>>,
     event_dataset |-> NoFile, model_metadata |-> <<>>, time_psd |-> 0,
     time_buffer |-> 0, data |-> <<>>, domain |-> NoDomain,
     result |-> <<>>, error |-> "none", trace |-> <<>>, ndl |-> 0,
     found |-> <<>>, dl |-> <<>>, load |-> "none", cache0 |-> [f \in Files |-> <<>>],
     last |-> <<>>, prev |-> <<>>]

Init ==
    /\ cache = [f \in Files |-> <<>>]
    /\ proc = [p \in Procs |-> Idle]
    /\ ncalls = 0

Set(p, r) == proc' = [proc EXCEPT ![p] = r]

\* a new frame for a call of fn
NewCall(p, fn) ==
    [Idle EXCEPT !.top = fn, !.cache0 = cache,
                 !.last = proc[p].last, !.prev = proc[p].prev]

CanCall(p) == proc[p].pc = "idle" /\ ncalls < MaxCalls

\* what is remembered of a finished load_raw_data invocation
Summary(r, how, d) ==
    [time_event |-> r.time_event, settings |-> r.settings,
     event_dataset |-> r.event_dataset, load |-> how, ndl |-> r.ndl,
     data |-> d]

(* ---------------------------- load_raw_data ---------------------------- *)

\* the order of get_domain_data's steps: the position after a finished one
GddNextSwapped(stage) ==
    CASE stage = "parse" -> "lookup"
      [] stage = "load" -> "convert"
      [] stage = "convert" -> "build"
      [] stage = "build" -> "returned"

GddNext(stage) ==
    CASE stage = "parse" -> "lookup"
      [] stage = "load" -> "build"
      [] stage = "build" -> "convert"
      [] stage = "convert" -> "returned"

\* entry of load_raw_data: event = str(time_event)
EnterLoad(r) ==
    [r EXCEPT !.pc = "lookup", !.prev = r.last, !.ndl = 0, !.data = <<>>,
              !.found = <<>>, !.dl = <<>>,
              !.load = "running", !.trace = Append(@, "load_raw_data")]

\* return data
LoadReturn(r, d) ==
    LET done == [r EXCEPT !.data = <<d>>, !.load = "returned",
                          !.last = <<Summary(r, "returned", <<d>>)>>]
    IN  IF r.top = "load_raw_data"
        THEN [done EXCEPT !.pc = "returned", !.result = <<d>>]
        ELSE [done EXCEPT !.pc = GddNext("load")]

\* an exception leaving load_raw_data, and with it the caller's call
LoadRaise(r, e) ==
    [r EXCEPT !.pc = "raised", !.error = e, !.load = "raised",
              !.last = <<Summary(r, "raised", <<>>)>>]

CallLoadRawData(p) ==
    /\ CanCall(p)
    /\ \E t \in Events, s \in SettingsSet, f \in Files \cup {NoFile} :
          Set(p, EnterLoad([NewCall(p, "load_raw_data") EXCEPT
                               !.time_event = t, !.settings = <<s>>,
                               !.event_dataset = f]))
    /\ ncalls' = ncalls + 1
    /\ UNCHANGED cache

\* the early return left out: a stored payload is never returned
NeverReturned(found) == FALSE

\* `if data is not None: return data`
IsNotNone(found) == found # <<>>

\* the values load_data_from_file can give: a stored payload, or None
LookupResults(contents, key, settings) ==
    LET hits == load_data_from_file(contents, key, settings)
    IN  IF hits = {} THEN {<<>>} ELSE {<<d>> : d \in hits}

\* lines 36-40: try the saved dataset first
LoadLookup(p) ==
    LET r == proc[p]
    IN  /\ r.pc = "lookup"
        /\ IF r.event_dataset # NoFile
           THEN \E found \in LookupResults(cache[r.event_dataset],
                                           Str(r.time_event), r.settings[1]) :
                  LET q == [r EXCEPT !.trace = Append(@, "load_data_from_file"),
                                     !.found = found]
                  IN  IF IsNotNone(found)
                      THEN Set(p, LoadReturn(q, found[1]))
                      ELSE Set(p, [q EXCEPT !.pc = "download"])
           ELSE Set(p, [r EXCEPT !.pc = "download"])
        /\ UNCHANGED <<cache, ncalls>>

\* download_raw_data(time_event, **settings): a payload, or a failure
download_raw_data(time_event, settings) ==
    {Returned(d) : d \in DownloadPayloads} \cup {Raised("DownloadError")}

\* line 44 inside a retry loop: a failure is tried again
AfterDownloadRetry(r, out) ==
    IF out.raised = "none"
    THEN [r EXCEPT !.pc = "save", !.data = out.value]
    ELSE [r EXCEPT !.pc = "download"]

\* line 44 followed at once by `return data`: the save is never reached
AfterDownloadNoSave(r, out) ==
    IF out.raised = "none"
    THEN LoadReturn([r EXCEPT !.data = out.value], out.value[1])
    ELSE LoadRaise(r, out.raised)

\* line 44: the result is bound to data, a failure propagates
AfterDownload(r, out) ==
    IF out.raised = "none"
    THEN [r EXCEPT !.pc = "save", !.data = out.value]
    ELSE LoadRaise(r, out.raised)

LoadDownload(p) ==
    LET r == proc[p]
    IN  /\ r.pc = "download"
        /\ \E out \in download_raw_data(r.time_event, r.settings[1]) :
              Set(p, AfterDownload(
                       [r EXCEPT !.trace = Append(@, "download_raw_data"),
                                 !.ndl = @ + 1, !.dl = out.value], out))
        /\ UNCHANGED <<cache, ncalls>>

\* the dataset written with mode "w"
SaveOverwrite(contents, event, data, settings) ==
    to_file(contents, DingoDataset(event, data, settings), "w")

\* the dataset built without its data key: nothing is stored
SaveNothing(contents, event, data, settings) == contents

\* a writer that looks for the key first and skips a second append
SaveIfAbsent(contents, event, data, settings) ==
    IF \E i \in 1..Len(contents) : contents[i].key = event
    THEN contents
    ELSE to_file(contents, DingoDataset(event, data, settings), "a")

\* lines 48-52: DingoDataset(...).to_file(event_dataset, mode="a")
SaveToDataset(contents, event, data, settings) ==
    to_file(contents, DingoDataset(event, data, settings), "a")

\* lines 46-54: optionally save, then return data
LoadSave(p) ==
    LET r == proc[p]
    IN  /\ r.pc = "save"
        /\ IF r.event_dataset # NoFile
           THEN /\ cache' = [cache EXCEPT ![r.event_dataset] =
                               SaveToDataset(@, Str(r.time_event), r.data[1],
                                             r.settings[1])]
                /\ Set(p, LoadReturn([r EXCEPT !.trace = Append(@, "to_file")],
                                     r.data[1]))
           ELSE /\ Set(p, LoadReturn(r, r.data[1]))
                /\ UNCHANGED cache
        /\ UNCHANGED ncalls

(* --------------------------- get_domain_data --------------------------- *)

CallGetDomainData(p) ==
    /\ CanCall(p)
    /\ \E m \in ModelMetadata, t \in Events, tp \in TimePsds,
          tb \in TimeBuffers, f \in Files \cup {NoFile} :
          Set(p, [NewCall(p, "get_domain_data") EXCEPT
                     !.pc = "parse", !.model_metadata = <<m>>,
                     !.time_event = t, !.time_psd = tp, !.time_buffer = tb,
                     !.event_dataset = f])
    /\ ncalls' = ncalls + 1
    /\ UNCHANGED cache

\* lines 122-127: parse the settings, then enter load_raw_data
GddParse(p) ==
    LET r   == proc[p]
        out == parse_settings_for_raw_data(r.model_metadata[1], r.time_psd,
                                           r.time_buffer)
        q   == [r EXCEPT !.trace = Append(@, "parse_settings_for_raw_data")]
    IN  /\ r.pc = "parse"
        /\ IF out.raised = "none"
           THEN Set(p, [EnterLoad([q EXCEPT !.settings = out.value])
                           EXCEPT !.pc = GddNext("parse")])
           ELSE Set(p, [q EXCEPT !.pc = "raised", !.error = out.raised])
        /\ UNCHANGED <<cache, ncalls>>

\* line 133: the domain object, built once load_raw_data has returned
GddBuild(p) ==
    LET r == proc[p]
        q == [r EXCEPT !.trace = Append(@, "build_domain_from_model_metadata")]
    IN  /\ r.pc = "build"
        /\ \E out \in build_domain_from_model_metadata(r.model_metadata[1]) :
              IF out.raised = "none"
              THEN Set(p, [q EXCEPT !.pc = GddNext("build"),
                                    !.domain = out.value[1]])
              ELSE Set(p, [q EXCEPT !.pc = "raised", !.error = out.raised])
        /\ UNCHANGED <<cache, ncalls>>

\* lines 130-137: convert and return
GddConvert(p) ==
    LET r   == proc[p]
        out == data_to_domain(r.data[1], r.settings[1], r.domain,
                              r.model_metadata[1].window)
        q   == [r EXCEPT !.trace = Append(@, "data_to_domain")]
    IN  /\ r.pc = "convert"
        /\ IF out.raised = "none"
           THEN Set(p, [q EXCEPT !.pc = GddNext("convert"),
                                 !.result = out.value])
           ELSE Set(p, [q EXCEPT !.pc = "raised", !.error = out.raised])
        /\ UNCHANGED <<cache, ncalls>>

(* ------------------------ calls of pure functions ---------------------- *)

\* the frame after a call that gave out
Finished(r, out) ==
    IF out.raised = "none"
    THEN [r EXCEPT !.pc = "returned", !.result = out.value]
    ELSE [r EXCEPT !.pc = "raised", !.error = out.raised]

CallParseSettings(p) ==
    /\ CanCall(p)
    /\ \E m \in ModelMetadata, tp \in TimePsds, tb \in TimeBuffers :
          Set(p, Finished(
                   [NewCall(p, "parse_settings_for_raw_data") EXCEPT
                       !.model_metadata = <<m>>, !.time_psd = tp,
                       !.time_buffer = tb,
                       !.trace = <<"parse_settings_for_raw_data">>],
                   parse_settings_for_raw_data(m, tp, tb)))
    /\ ncalls' = ncalls + 1
    /\ UNCHANGED cache

CallDataToDomain(p, raws) ==
    /\ CanCall(p)
    /\ \E raw \in raws, s \in SettingsSet, d \in DomainObjects :
          Set(p, Finished(
                   [NewCall(p, "data_to_domain") EXCEPT
                       !.data = <<raw>>, !.settings = <<s>>, !.domain = d,
                       !.trace = <<"data_to_domain">>],
                   data_to_domain(raw, s, d, s.window)))
    /\ ncalls' = ncalls + 1
    /\ UNCHANGED cache

\* ra, t_event and t_ref are kept in time_event, time_psd and time_buffer
CallSkyPosition(p) ==
    /\ CanCall(p)
    /\ \E ra \in RaVals, t_event \in Times, t_ref \in Times :
          Set(p, [NewCall(p, "get_corrected_sky_position") EXCEPT
                     !.pc = "returned", !.time_event = ra,
                     !.time_psd = t_event, !.time_buffer = t_ref,
                     !.result =
                        <<get_corrected_sky_position(ra, t_event, t_ref)>>])
    /\ ncalls' = ncalls + 1
    /\ UNCHANGED cache

\* the caller takes the result or the exception and is free to call again
Finish(p) ==
    /\ proc[p].pc \in {"returned", "raised"}
    /\ Set(p, [Idle EXCEPT !.last = proc[p].last, !.prev = proc[p].prev])
    /\ UNCHANGED <<cache, ncalls>>

(* ---------------------------- specifications --------------------------- *)

\* one caller, every entry point but the sky-position correction
Next ==
    \/ CallLoadRawData(1)
    \/ LoadLookup(1)
    \/ LoadDownload(1)
    \/ LoadSave(1)
    \/ CallGetDomainData(1)
    \/ GddParse(1)
    \/ GddBuild(1)
    \/ GddConvert(1)
    \/ CallParseSettings(1)
    \/ CallDataToDomain(1, DownloadPayloads)
    \/ Finish(1)

Spec == Init /\ [][Next]_vars

\* two callers of load_raw_data on the shared dataset file, interleaved
\* statement by statement
NextConc ==
    \E p \in Procs :
        \/ CallLoadRawData(p)
        \/ LoadLookup(p)
        \/ LoadDownload(p)
        \/ LoadSave(p)
        \/ Finish(p)

SpecConc == Init /\ [][NextConc]_vars

\* one caller of the pure functions, over their whole input sets
NextFn ==
    \/ CallSkyPosition(1)
    \/ CallDataToDomain(1, RawDataSet)
    \/ CallParseSettings(1)
    \/ Finish(1)

SpecFn == Init /\ [][NextFn]_vars

(* ------------------------------ properties ----------------------------- *)

Has(tr, e) == \E i \in 1..Len(tr) : tr[i] = e

Count(tr, e) == Cardinality({i \in 1..Len(tr) : tr[i] = e})

Before(tr, a, b) ==
    \A i, j \in 1..Len(tr) : (tr[i] = a /\ tr[j] = b) => i < j

IsPrefix(a, b) == Len(a) <= Len(b) /\ \A i \in 1..Len(a) : a[i] = b[i]

\* the entry load_raw_data writes for frame r
EntryOf(r) == DingoDataset(Str(r.time_event), r.data[1], r.settings[1])

\* the payloads the cache holds for the event and settings of frame r
StoredFor(r) ==
    load_data_from_file(cache[r.event_dataset], Str(r.time_event),
                        r.settings[1])

\* frame r is a load_raw_data invocation with the arguments of the one
\* before it, on a cache file
Repeats(r) ==
    /\ r.load # "none"
    /\ r.prev # <<>>
    /\ r.event_dataset # NoFile
    /\ r.prev[1].time_event = r.time_event
    /\ r.prev[1].settings = r.settings
    /\ r.prev[1].event_dataset = r.event_dataset

\* C1 as stated: two load_raw_data calls in sequence with the same event,
\* settings and cache file make at most one download between them, and the
\* second returns the payload stored in the cache.
C1_AtMostOneDownloadAlways ==
    \A p \in {1} :
        LET r == proc[p]
        IN  (Repeats(r) /\ r.load \in {"returned", "raised"}) =>
               /\ r.prev[1].ndl + r.ndl <= 1
               /\ r.load = "returned"
               /\ r.data[1] \in StoredFor(r)

\* C1 amended: when the first of the two calls returned, the second makes
\* no download and returns the payload stored in the cache; the two calls
\* make at most one download between them.
C1_Idempotent ==
    \A p \in {1} :
        LET r == proc[p]
        IN  (Repeats(r) /\ r.prev[1].load = "returned") =>
               /\ r.ndl = 0
               /\ r.prev[1].ndl + r.ndl <= 1
               /\ r.pc \notin {"download", "save"}
               /\ r.load # "raised"
               /\ r.load = "returned" =>
                     /\ r.data[1] \in StoredFor(r)
                     /\ r.data = r.prev[1].data

C1_Witness ==
    LET r == proc[1]
    IN  /\ Repeats(r)
        /\ r.top = "load_raw_data"
        /\ r.pc = "returned"
        /\ r.prev[1].load = "returned"
        /\ r.prev[1].ndl = 1
        /\ r.ndl = 0
        /\ r.result = r.prev[1].data

\* C2: when the lookup in the supplied cache file gives a payload,
\* load_raw_data returns exactly that payload, calls download_raw_data not
\* at all and leaves the cache as it was.
C2_HitPath ==
    \A p \in {1} :
        LET r == proc[p]
        IN  r.found # <<>> =>
               /\ r.event_dataset # NoFile
               /\ r.load = "returned"
               /\ r.data = r.found
               /\ r.top = "load_raw_data" =>
                     (r.pc = "returned" /\ r.result = r.found)
               /\ r.ndl = 0
               /\ ~Has(r.trace, "download_raw_data")
               /\ ~Has(r.trace, "to_file")
               /\ cache = r.cache0

C2_Witness ==
    LET r == proc[1]
    IN  /\ r.top = "load_raw_data"
        /\ r.pc = "returned"
        /\ r.found # <<>>
        /\ r.result = r.found
        /\ cache[r.event_dataset] # <<>>

\* C3: every step leaves each cache file's earlier entries in place and
\* unchanged: the old contents are a prefix of the new.
C3_AppendOnly ==
    [][\A f \in Files : IsPrefix(cache[f], cache'[f])]_vars

\* a second entry written for an event already stored, under other settings
C3_Witness ==
    \E f \in Files :
        /\ Len(cache[f]) >= 2
        /\ cache[f][1].key = cache[f][2].key
        /\ cache[f][1].settings # cache[f][2].settings

\* the last collaborator the call of frame r invoked
LastStep(r) == r.trace[Len(r.trace)]

\* C4 as stated: an unsupported domain kind makes the parser and the
\* converter raise NotImplementedError, and whenever it is raised no output
\* exists and no cache write has happened since the call began, also inside
\* get_domain_data with a cache file.
C4_NoCacheWriteEver ==
    \A p \in {1} :
        LET r == proc[p]
        IN  /\ r.error = "NotImplementedError" =>
                  /\ r.pc = "raised"
                  /\ r.result = <<>>
                  /\ cache = r.cache0
                  /\ ~Has(r.trace, "to_file")
            /\ (/\ r.top = "parse_settings_for_raw_data"
                /\ r.model_metadata[1].domain_type # "FrequencyDomain") =>
                  r.error = "NotImplementedError"
            /\ (/\ r.top = "data_to_domain"
                /\ r.domain.kind # "FrequencyDomain") =>
                  r.error = "NotImplementedError"
            /\ (/\ r.top = "get_domain_data"
                /\ r.model_metadata[1].domain_type # "FrequencyDomain"
                /\ r.pc # "parse") =>
                  /\ r.error = "NotImplementedError"
                  /\ r.trace = <<"parse_settings_for_raw_data">>
            /\ (/\ r.top = "get_domain_data"
                /\ Has(r.trace, "data_to_domain")
                /\ r.domain.kind # "FrequencyDomain") =>
                  r.error = "NotImplementedError"

\* C4 amended: an unsupported domain kind makes the parser and the converter
\* raise NotImplementedError for any input, with no output.  The failing
\* operation writes nothing itself: after a failed parse, alone or in
\* get_domain_data, and after a failed direct conversion the cache is as it
\* was when the call began; after a failed conversion in get_domain_data
\* the cache differs from then by exactly the entry load_raw_data appended,
\* if it downloaded for a cache file.
C4_Unsupported ==
    \A p \in {1} :
        LET r == proc[p]
        IN  /\ r.error = "NotImplementedError" =>
                  /\ r.pc = "raised"
                  /\ r.result = <<>>
                  /\ LastStep(r) \in {"parse_settings_for_raw_data",
                                      "data_to_domain"}
                  /\ (\/ LastStep(r) = "parse_settings_for_raw_data"
                      \/ r.top = "data_to_domain") =>
                        (cache = r.cache0 /\ ~Has(r.trace, "to_file"))
                  /\ (r.top = "get_domain_data"
                        /\ LastStep(r) = "data_to_domain") =>
                        IF Has(r.trace, "to_file")
                        THEN /\ r.dl # <<>>
                             /\ r.event_dataset # NoFile
                             /\ cache = [r.cache0 EXCEPT ![r.event_dataset] =
                                            Append(@, EntryOf(r))]
                        ELSE cache = r.cache0
            /\ (/\ r.top = "parse_settings_for_raw_data"
                /\ r.model_metadata[1].domain_type # "FrequencyDomain") =>
                  r.error = "NotImplementedError"
            /\ (/\ r.top = "data_to_domain"
                /\ r.domain.kind # "FrequencyDomain") =>
                  r.error = "NotImplementedError"
            /\ (/\ r.top = "get_domain_data"
                /\ r.model_metadata[1].domain_type # "FrequencyDomain"
                /\ r.pc # "parse") =>
                  /\ r.error = "NotImplementedError"
                  /\ r.trace = <<"parse_settings_for_raw_data">>
            /\ (/\ r.top = "get_domain_data"
                /\ Has(r.trace, "data_to_domain")
                /\ r.domain.kind # "FrequencyDomain") =>
                  r.error = "NotImplementedError"

\* get_domain_data with a cache file: the download was appended, the factory
\* gave a domain that is no FrequencyDomain, and the converter raised
C4_Witness ==
    LET r == proc[1]
    IN  /\ r.top = "get_domain_data"
        /\ r.error = "NotImplementedError"
        /\ LastStep(r) = "data_to_domain"
        /\ r.model_metadata[1].domain_type = "FrequencyDomain"
        /\ r.event_dataset # NoFile
        /\ Has(r.trace, "to_file")
        /\ cache # r.cache0

\* frame r went past the lookup without a payload
Missed(r) ==
    /\ r.load # "none"
    /\ r.pc # "lookup"
    /\ r.found = <<>>

\* C5: on a miss or without a cache file exactly one download is made and
\* its result returned; the entry is appended exactly when a cache file was
\* given and the download succeeded, after the download; without a cache
\* file the cache is neither read nor written.
C5_MissPath ==
    \A p \in {1} :
        LET r == proc[p]
        IN  /\ Missed(r) =>
                  /\ r.ndl <= 1
                  /\ Count(r.trace, "download_raw_data") = r.ndl
                  /\ Before(r.trace, "download_raw_data", "to_file")
                  /\ Has(r.trace, "to_file") =>
                        (r.event_dataset # NoFile /\ r.dl # <<>>)
                  /\ r.load \in {"returned", "raised"} => r.ndl = 1
                  /\ r.load = "returned" =>
                        /\ r.data = r.dl
                        /\ r.top = "load_raw_data" => r.result = r.dl
                        /\ Has(r.trace, "to_file") <=> r.event_dataset # NoFile
                        /\ IF r.event_dataset # NoFile
                           THEN cache =
                                  [r.cache0 EXCEPT ![r.event_dataset] =
                                      Append(@, EntryOf(r))]
                           ELSE cache = r.cache0
                  /\ r.load = "raised" => cache = r.cache0
            /\ (r.load # "none" /\ r.event_dataset = NoFile) =>
                  /\ ~Has(r.trace, "load_data_from_file")
                  /\ ~Has(r.trace, "to_file")
                  /\ cache = r.cache0

\* a miss in a cache file that holds another entry, downloaded and appended
C5_Witness ==
    LET r == proc[1]
    IN  /\ r.top = "load_raw_data"
        /\ r.pc = "returned"
        /\ Has(r.trace, "load_data_from_file")
        /\ r.found = <<>>
        /\ r.ndl = 1
        /\ Len(cache[r.event_dataset]) = 2
        /\ cache[r.event_dataset][2] = EntryOf(r)

\* C6: a failed download ends the call with that failure and no data after
\* one download_raw_data call, and the cache is as it was when the call
\* began; no call downloads twice.
C6_DownloadFailure ==
    \A p \in {1} :
        LET r == proc[p]
        IN  /\ r.ndl <= 1
            /\ (r.ndl = 1 /\ r.dl = <<>>) =>
                  /\ r.pc = "raised"
                  /\ r.error = "DownloadError"
                  /\ r.load = "raised"
                  /\ r.data = <<>>
                  /\ r.result = <<>>
                  /\ Count(r.trace, "download_raw_data") = 1
                  /\ ~Has(r.trace, "to_file")
                  /\ ~Has(r.trace, "data_to_domain")
                  /\ cache = r.cache0

\* the download failing for a call on a cache file that holds an entry
C6_Witness ==
    LET r == proc[1]
    IN  /\ r.error = "DownloadError"
        /\ r.event_dataset # NoFile
        /\ cache[r.event_dataset] # <<>>
        /\ StoredFor(r) = {}

\* C7: the corrected right ascension lies in [0, 2 pi).
C7_Range ==
    \A p \in {1} :
        LET r == proc[p]
        IN  (r.top = "get_corrected_sky_position" /\ r.pc = "returned") =>
               (0 <= r.result[1] /\ r.result[1] < TwoPi)

\* C8: every PSD bin kept by the domain whose square root is below 1.0
\* has the ASD 1.0 in data["asds"][det].
C8_AsdFloor ==
    \A p \in {1} :
        LET r == proc[p]
        IN  (r.top = "data_to_domain" /\ r.pc = "returned") =>
               \A det \in Dets :
                  \A i \in 1..Min(Len(r.data[1].psd[det]), r.domain.nbins) :
                     Sqrt(r.data[1].psd[det][i]) < Fixed(LowValue) =>
                        r.result[1].asds[det][i] = Fixed(LowValue)

\* a conversion of a PSD with a bin below and a bin above the floor
C8_Witness ==
    LET r == proc[1]
    IN  /\ r.top = "data_to_domain"
        /\ r.pc = "returned"
        /\ r.domain.nbins >= 2
        /\ \E det \in Dets :
              /\ 0 < Sqrt(r.data[1].psd[det][1])
              /\ Sqrt(r.data[1].psd[det][1]) < Fixed(LowValue)
              /\ r.result[1].asds[det][1] = Fixed(LowValue)
              /\ Sqrt(r.data[1].psd[det][2]) > Fixed(LowValue)
              /\ r.result[1].asds[det][2] = Sqrt(r.data[1].psd[det][2])

Rank(e) ==
    CASE e = "parse_settings_for_raw_data" -> 1
      [] e = "load_raw_data" -> 2
      [] e = "load_data_from_file" -> 3
      [] e = "download_raw_data" -> 4
      [] e = "to_file" -> 5
      [] e = "build_domain_from_model_metadata" -> 6
      [] e = "data_to_domain" -> 7

\* C9: get_domain_data parses the settings, then loads the raw data, then
\* builds the domain, then converts; no step is taken unless the one before
\* it succeeded, and after a failed parse nothing else is done.
C9_Order ==
    \A p \in {1} :
        LET r  == proc[p]
            tr == r.trace
        IN  r.top = "get_domain_data" =>
               /\ \A i, j \in 1..Len(tr) : i < j => Rank(tr[i]) < Rank(tr[j])
               /\ Has(tr, "load_raw_data") =>
                     (tr[1] = "parse_settings_for_raw_data" /\ r.settings # <<>>)
               /\ Has(tr, "build_domain_from_model_metadata") =>
                     r.load = "returned"
               /\ Has(tr, "data_to_domain") =>
                     Has(tr, "build_domain_from_model_metadata")
               /\ r.pc = "returned" => Has(tr, "data_to_domain")
               /\ r.load = "raised" =>
                     ~Has(tr, "build_domain_from_model_metadata")
               /\ (r.pc # "parse" /\ r.settings = <<>>) =>
                     /\ r.pc = "raised"
                     /\ tr = <<"parse_settings_for_raw_data">>
                     /\ cache = r.cache0

\* a run through every step: parse, lookup, download, save, build, convert
C9_Witness ==
    LET r == proc[1]
    IN  /\ r.top = "get_domain_data"
        /\ r.pc = "returned"
        /\ r.trace = <<"parse_settings_for_raw_data", "load_raw_data",
                       "load_data_from_file", "download_raw_data", "to_file",
                       "build_domain_from_model_metadata", "data_to_domain">>

\* C10: the save of a caller with a cache file appends its entry whatever
\* the file holds by then, so two interleaved callers for one event can both
\* miss, both download and both append.
C10_NoRecheck ==
    [][\A p \in Procs :
          (/\ proc[p].pc = "save"
           /\ proc'[p].pc # "save"
           /\ proc[p].event_dataset # NoFile) =>
             cache' = [cache EXCEPT ![proc[p].event_dataset] =
                          Append(@, EntryOf(proc[p]))]]_vars

\* two entries for one event and settings in a file that began empty, each
\* written by a caller that missed and downloaded
C10_Witness ==
    \E f \in Files :
        /\ Len(cache[f]) = 2
        /\ cache[f][1].key = cache[f][2].key
        /\ cache[f][1].settings = cache[f][2].settings
        /\ \A p \in Procs :
              /\ proc[p].load = "returned"
              /\ proc[p].event_dataset = f
              /\ proc[p].cache0[f] = <<>>
              /\ proc[p].found = <<>>
              /\ proc[p].ndl = 1
              /\ Has(proc[p].trace, "load_data_from_file")
              /\ Has(proc[p].trace, "to_file")

====
